---- MODULE Spec2Model ----
(***************************************************************************)
(* Model of the concurrent benchmarking harness of q3_benchmark:           *)
(*   metrics.py    send_single_request, run_concurrent_requests            *)
(*   benchmark.py  benchmark_engine, run_benchmark                         *)
(*   config.py     the configuration values                                *)
(* and of the argument validator of q1_decorator (validator.py).           *)
(*                                                                         *)
(* Specifications, all over the same variables:                            *)
(*   Spec           run_benchmark with two engines                         *)
(*   SpecLive       Spec with the event loop running every ready task      *)
(*   SpecBatch      one call of run_concurrent_requests                    *)
(*   SpecRunner     one request against every endpoint behaviour           *)
(*   SpecAgg        one call of calculate_aggregated_metrics               *)
(*   SpecMisuse     run_benchmark with an empty corpus or a level of zero  *)
(*   SpecE2E        run_benchmark against an always-succeeding endpoint    *)
(*   SpecPayload    one request for every kind of generation_config        *)
(*   SpecValidator  one call of a function wrapped by validate_dict_str_int*)
(*                                                                         *)
(* Text is modelled as a sequence of atoms.  A stream line is a sequence   *)
(* over "data:", " ", "[DONE]", ":", "x" (any other printable text) and    *)
(* "\\xff" (bytes that are not valid UTF-8), ended by the terminator "\n".   *)
(*                                                                         *)
(* time.perf_counter() is the variable now.  It never goes backwards.  A   *)
(* network round trip (request sent, response head received) takes at      *)
(* least one tick; reading a further line of an open response may take     *)
(* none.                                                                   *)
(***************************************************************************)
EXTENDS Integers, Sequences, FiniteSets, TLC

VARIABLES
    pc,           \* position of the caller: run_benchmark / benchmark_engine, or a bare call
    cfg,          \* the inputs: the configuration of the run, or the arguments of a bare call
    engine,       \* index of the engine being benchmarked (1, 2; 3 after both)
    lvl,          \* index into cfg.levels of the concurrency level being measured
    level_start,  \* benchmark_engine's start_time of the current level
    results,      \* results[e]: the ResultTable of engine e (level -> AggregatedMetrics)
    run,          \* locals of the current run_concurrent_requests call
    reqs,         \* the send_single_request coroutines of the current call, by slot
    all_metrics,  \* run_concurrent_requests' all_metrics
    wave_sizes,   \* history: the batch_size of every wave launched by the current call
    fails,        \* history: failed requests of the current call (cur) and of each
                  \* measured level (by[e][level])
    now           \* time.perf_counter()

vars == <<pc, cfg, engine, lvl, level_start, results, run, reqs, all_metrics,
          wave_sizes, fails, now>>

(***************************************************************************)
(* Bounds                                                                  *)
(***************************************************************************)
MaxN == 3            \* largest num_requests of a bare run_concurrent_requests call
MaxC == 2            \* largest concurrency of a bare run_concurrent_requests call
MaxLines == 3        \* longest stream of a single request (runner specification)
MaxTick == 1         \* largest clock advance of one network event (runner specification)
MaxBatchLines == 1   \* longest stream of a request in the scheduler specification
MaxRpl == 2          \* largest requests_per_level of a driver run
MaxWarmup == 2       \* largest warmup_requests of a driver run
MaxClock == 40       \* cap of the clock
MaxList == 3         \* longest metrics_list handed to calculate_aggregated_metrics
MaxDuration == 2     \* largest |total_duration| handed to calculate_aggregated_metrics
MaxUnits == 2        \* most payload lines of a response of the always-succeeding endpoint
MaxE2ERpl == 4       \* largest requests_per_level of an end-to-end run
MaxParams == 2       \* most parameters of a function wrapped by validate_dict_str_int
MaxItems == 1        \* most items of a dict handed to a wrapped function

None == -1           \* Python None where a number is expected
NoStatus == 0        \* no response head received yet

Min(a, b) == IF a < b THEN a ELSE b

Range(s) == {s[i] : i \in DOMAIN s}

SeqsUpTo(S, n) == UNION {[1..k -> S] : k \in 0..n}

(***************************************************************************)
(* str methods used on a stream line                                       *)
(***************************************************************************)
IsSpace(a) == a \in {" ", "\n"}

RECURSIVE LStrip(_)
LStrip(s) == IF s # <<>> /\ IsSpace(Head(s)) THEN LStrip(Tail(s)) ELSE s

RECURSIVE RStrip(_)
RStrip(s) ==
    IF s # <<>> /\ IsSpace(s[Len(s)]) THEN RStrip(SubSeq(s, 1, Len(s) - 1)) ELSE s

Strip(s) == RStrip(LStrip(s))

StartsWith(s, p) == Len(s) >= Len(p) /\ SubSeq(s, 1, Len(p)) = p

Decodable(raw) == "\\xff" \notin Range(raw)

DataPrefix == <<"data:", " ">>
DoneMarker == <<"[DONE]">>

\* the loop body without the .strip()
ClassifyLineUnstripped(raw) ==
    IF raw = <<>> \/ StartsWith(raw, <<":">>) THEN "skip"
    ELSE IF StartsWith(raw, <<"data:", " ">>)
         THEN IF SubSeq(raw, 3, Len(raw)) = <<"[DONE]">> THEN "done" ELSE "token"
         ELSE "skip"

\* What the loop body does with one decoded line: "skip" (continue, or no
\* branch taken), "done" (break) or "token" (count it).
ClassifyLine(raw) ==
    LET line == Strip(raw) IN
    IF line = <<>> \/ StartsWith(line, <<":">>) THEN "skip"
    ELSE IF StartsWith(line, DataPrefix)
         THEN LET data == SubSeq(line, Len(DataPrefix) + 1, Len(line)) IN
              IF data = DoneMarker THEN "done" ELSE "token"
         ELSE "skip"

(***************************************************************************)
(* RequestMetrics                                                          *)
(***************************************************************************)
NoError == [some |-> FALSE, text |-> <<>>]
ErrorText(t) == [some |-> TRUE, text |-> t]

RequestMetrics(ttft, latency, tokens, success, error) ==
    [ttft |-> ttft, latency |-> latency, tokens_generated |-> tokens,
     success |-> success, error |-> error]

NoResult == RequestMetrics(0, 0, 0, FALSE, NoError)

\* "{response.status}" inside an f-string: the decimal text of the status
StatusText(status) ==
    CASE status = 200 -> "200"
      [] status = 204 -> "204"
      [] status = 500 -> "500"
      [] OTHER -> "???"

\* f"HTTP {response.status}: {error_text}"
HttpErrorMetrics(status, body) ==
    RequestMetrics(0, 0, 0, FALSE,
                   ErrorText(<<"HTTP ", StatusText(status), ": ", body>>))

\* an except branch that reports the lines counted so far
ExceptionMetricsPartial(r, e) ==
    RequestMetrics(0, 0, r.tokens_generated, FALSE, ErrorText(<<e>>))

\* the except branch: str(e)
ExceptionMetrics(r, e) ==
    RequestMetrics(0, 0, 0, FALSE, ErrorText(<<e>>))

Truthy(x) == x # None /\ x # 0

SuccessMetrics(r, end_time) ==
    RequestMetrics(IF Truthy(r.first_token_time)
                   THEN r.first_token_time - r.start_time ELSE 0,
                   end_time - r.start_time,
                   r.tokens_generated, TRUE, NoError)

\* an error test that lets the other 2xx statuses through
IsHttpErrorFrom400(status) == status >= 400

IsHttpError(status) == status # 200

(***************************************************************************)
(* send_single_request: one coroutine per slot of reqs                     *)
(***************************************************************************)
MODEL_NAME == "meta-llama/Llama-3.1-8B-Instruct"

\* {**a, **b}: the items of a, then those of b, a later key replacing an
\* earlier one
Merge(a, b) ==
    [k \in DOMAIN a \cup DOMAIN b |-> IF k \in DOMAIN b THEN b[k] ELSE a[k]]

\* payload = {"model": ..., "messages": [...], "stream": True,
\*            **generation_config}
Payload(model, prompt, generation_config) ==
    Merge([model |-> model,
           messages |-> <<[role |-> "user", content |-> prompt]>>,
           stream |-> TRUE],
          generation_config)

\* no payload built yet
NoPayload == [k \in {} |-> TRUE]

NewRequest(w, endpoint, prompt) ==
    [st |-> "created", wave |-> w, endpoint |-> endpoint, prompt |-> prompt,
     start_time |-> None, first_token_time |-> None, tokens_generated |-> 0,
     status |-> NoStatus, hist |-> <<>>, body_read |-> FALSE, body |-> "",
     exc |-> NoError, result |-> NoResult, posts |-> 0,
     payload |-> NoPayload]

Resolve(r, m) == [r EXCEPT !.st = "resolved", !.result = m]

\* the exception e is raised inside the try block
Raised(r, e) == [r EXCEPT !.exc = ErrorText(<<e>>)]

\* no except branch: the exception leaves the coroutine
CatchNothing(r, e) == [r EXCEPT !.st = "raised"]

\* an except branch that runs the request again
CatchAndRetry(r, e) == [r EXCEPT !.st = "created", !.exc = NoError]

\* except Exception as e: return RequestMetrics(... error=str(e))
Catch(r, e) == Resolve(r, ExceptionMetrics(r, e))

InFlightStates == {"posted", "errbody", "streaming"}

InFlight == Cardinality({i \in DOMAIN reqs : reqs[i].st \in InFlightStates})

\* TCPConnector(limit=n): at most n connections at a time, 0 meaning no limit
PoolHasRoom == run.limit = 0 \/ InFlight < run.limit

RunActive == pc \in {"warmup", "level", "batch"}

Quiet == UNCHANGED <<pc, cfg, engine, lvl, level_start, results, run,
                     all_metrics, wave_sizes>>

\* The task is run for the first time: the payload is built and start_time
\* taken, then session.post suspends waiting for a connection.  The event
\* loop runs the tasks of a wave in the order gather was given them.
\* posts is history: the number of session.post calls made for the slot.
StartTask(i) ==
    /\ RunActive
    /\ reqs[i].st = "created"
    /\ \A j \in 1..(i - 1) : reqs[j].st # "created"
    /\ reqs' = [reqs EXCEPT ![i].st = "connecting", ![i].start_time = now,
                            ![i].posts = @ + 1,
                            ![i].payload = Payload(MODEL_NAME, reqs[i].prompt,
                                                   cfg.generation_config)]
    /\ UNCHANGED <<fails, now>>
    /\ Quiet

\* A connection of the pool is acquired and the request is sent.
Connect(i) ==
    /\ RunActive
    /\ reqs[i].st = "connecting"
    /\ \A j \in DOMAIN reqs : reqs[j].st # "created"
    /\ PoolHasRoom
    /\ reqs' = [reqs EXCEPT ![i].st = "posted"]
    /\ UNCHANGED <<fails, now>>
    /\ Quiet

\* The response head arrives: "if response.status != 200".
Respond(i, status, d) ==
    /\ RunActive
    /\ reqs[i].st = "posted"
    /\ now + d <= MaxClock
    /\ now' = now + d
    /\ reqs' = [reqs EXCEPT ![i].status = status,
                            ![i].st = IF IsHttpError(status) THEN "errbody"
                                      ELSE "streaming"]
    /\ UNCHANGED fails
    /\ Quiet

\* await response.text() returns the error body.
ErrorBody(i, body) ==
    /\ RunActive
    /\ reqs[i].st = "errbody"
    /\ reqs' = [reqs EXCEPT ![i] =
                    [Resolve(@, HttpErrorMetrics(@.status, body))
                        EXCEPT !.body_read = TRUE, !.body = body]]
    /\ fails' = [fails EXCEPT !.cur = @ + 1]
    /\ UNCHANGED now
    /\ Quiet

\* the timestamp taken at every payload line
FirstTokenTimeAlways(first_token_time, t) == t

\* if first_token_time is None: first_token_time = time.perf_counter()
FirstTokenTime(first_token_time, t) ==
    IF first_token_time = None THEN t ELSE first_token_time

\* "tokens_generated = 1" in place of "+= 1"
CountTokenOnce(tokens_generated) == 1

\* tokens_generated += 1
CountToken(tokens_generated) == tokens_generated + 1

\* One iteration of "async for line in response.content".
AfterLine(r, raw, t) ==
    LET r1 == [r EXCEPT !.hist = Append(@, raw)] IN
    IF ~Decodable(raw)
    THEN Catch(Raised(r1, "UnicodeDecodeError"), "UnicodeDecodeError")
    ELSE CASE ClassifyLine(raw) = "skip" -> r1
           [] ClassifyLine(raw) = "done" -> Resolve(r1, SuccessMetrics(r1, t))
           [] ClassifyLine(raw) = "token" ->
                [r1 EXCEPT !.first_token_time = FirstTokenTime(@, t),
                           !.tokens_generated = CountToken(@)]

ReadLine(i, raw, d, cap) ==
    /\ RunActive
    /\ reqs[i].st = "streaming"
    /\ Len(reqs[i].hist) < cap
    /\ now + d <= MaxClock
    /\ now' = now + d
    /\ reqs' = [reqs EXCEPT ![i] = AfterLine(@, raw, now')]
    /\ fails' = IF reqs'[i].st = "resolved" /\ ~reqs'[i].result.success
                THEN [fails EXCEPT !.cur = @ + 1] ELSE fails
    /\ Quiet

\* The body ends without a terminator line: the loop is left normally.
\* a stream that ends without its terminator is reported as a failure
AfterEndOfInputFailure(r, t) == Resolve(r, RequestMetrics(0, 0, r.tokens_generated, FALSE, ErrorText(<<"incomplete">>)))

\* the async for is exhausted without a break: control reaches end_time =
\* time.perf_counter() and the success return, as it does after the break
AfterEndOfInput(r, t) == Resolve(r, SuccessMetrics(r, t))

EndOfStream(i, d) ==
    /\ RunActive
    /\ reqs[i].st = "streaming"
    /\ now + d <= MaxClock
    /\ now' = now + d
    /\ reqs' = [reqs EXCEPT ![i] = AfterEndOfInput(@, now')]
    /\ UNCHANGED fails
    /\ Quiet

\* The connection attempt, the request, the body read or the stream read
\* raises (refused, reset, timeout, protocol error); stages are the
\* positions of the coroutine at which the endpoint at hand fails.
Raise(i, e, stages) ==
    /\ RunActive
    /\ reqs[i].st \in stages
    /\ \A j \in DOMAIN reqs : reqs[j].st # "created"
    /\ reqs' = [reqs EXCEPT ![i] = Catch(Raised(@, e), e)]
    /\ fails' = [fails EXCEPT !.cur = @ + 1]
    /\ UNCHANGED now
    /\ Quiet

(***************************************************************************)
(* run_concurrent_requests                                                 *)
(***************************************************************************)
\* a connector left at the library's default limit
ConnectorLimitDefault(concurrency) == 100

\* aiohttp.TCPConnector(limit=concurrency)
ConnectorLimit(concurrency) == concurrency

NewRun(endpoint, concurrency, num_requests) ==
    [endpoint |-> endpoint, concurrency |-> concurrency,
     num_requests |-> num_requests, limit |-> ConnectorLimit(concurrency),
     batch_start |-> 0, wave |-> 0, gathering |-> FALSE]

IdleRun == NewRun("", 0, 0)

\* a range that takes a zero step for an empty range
RangeRaisesNever(step) == FALSE

\* range(0, num_requests, concurrency): ValueError when the step is zero,
\* whatever num_requests
RangeRaises(step) == step = 0

\* random.choice(prompts): IndexError when prompts is empty
ChoiceRaises(prompts) == prompts = <<>>

\* the wave size with the min() left out
BatchSizeNoMin(concurrency, num_requests, batch_start) == concurrency

\* only full waves are issued: a wave that cannot be filled is skipped
BatchSizeFullOnly(concurrency, num_requests, batch_start) == IF concurrency <= num_requests - batch_start THEN concurrency ELSE 0

\* batch_size = min(concurrency, num_requests - batch_start)
BatchSize(concurrency, num_requests, batch_start) ==
    Min(concurrency, num_requests - batch_start)

\* a range with the step left out
NextBatchStartStepOne(batch_start, concurrency) == batch_start + 1

\* the next item of range(0, num_requests, concurrency)
NextBatchStart(batch_start, concurrency) == batch_start + concurrency

\* a wait that returns at the first completed task
GatherFirstCompleted(rs) ==
    \/ \E i \in DOMAIN rs : rs[i].st = "resolved"
    \/ \E i \in DOMAIN rs : rs[i].st = "raised"

\* a wait with a timeout, which returns with whatever has completed
GatherWithTimeout(rs) == TRUE

\* await asyncio.gather(*tasks) returns once every task has returned (or
\* raises as soon as one task raises)
GatherReady(rs) ==
    \/ \A i \in DOMAIN rs : rs[i].st = "resolved"
    \/ \E i \in DOMAIN rs : rs[i].st = "raised"

RECURSIVE Results(_)
Results(rs) ==
    IF rs = <<>> THEN <<>>
    ELSE (IF Head(rs).st = "resolved" THEN <<Head(rs).result>> ELSE <<>>)
         \o Results(Tail(rs))

\* "for batch_start in range(0, num_requests, concurrency)" has a next item
\* and the tasks of that wave are created, each with its prompt chosen.  With
\* an empty prompts list the first choice raises, before any task is
\* created, and the exception leaves run_concurrent_requests.
LaunchWave ==
    /\ RunActive
    /\ ~run.gathering
    /\ run.batch_start < run.num_requests
    /\ LET batch_size == BatchSize(run.concurrency, run.num_requests,
                                   run.batch_start)
       IN IF batch_size > 0 /\ ChoiceRaises(cfg.prompts)
          THEN /\ pc' = "crashed"
               /\ UNCHANGED <<reqs, wave_sizes, run>>
          ELSE /\ \E ps \in [1..batch_size -> Range(cfg.prompts)] :
                     reqs' = reqs \o [k \in 1..batch_size |->
                                       NewRequest(run.wave + 1, run.endpoint,
                                                  ps[k])]
               /\ wave_sizes' = Append(wave_sizes, batch_size)
               /\ run' = [run EXCEPT !.wave = @ + 1, !.gathering = TRUE]
               /\ UNCHANGED pc
    /\ UNCHANGED <<cfg, engine, lvl, level_start, results, all_metrics,
                   fails, now>>

\* gather returns: all_metrics.extend(batch_metrics), next batch_start.
\* An exception out of gather leaves run_concurrent_requests and its
\* callers, none of which catches it.
WaveDone ==
    /\ RunActive
    /\ run.gathering
    /\ LET rs == SubSeq(reqs, Len(reqs) - wave_sizes[Len(wave_sizes)] + 1,
                        Len(reqs))
       IN /\ GatherReady(rs)
          /\ IF \E i \in DOMAIN rs : rs[i].st = "raised"
             THEN /\ pc' = "crashed"
                  /\ UNCHANGED <<run, all_metrics>>
             ELSE /\ all_metrics' = all_metrics \o Results(rs)
                  /\ run' = [run EXCEPT !.gathering = FALSE,
                                        !.batch_start =
                                            NextBatchStart(@, run.concurrency)]
                  /\ UNCHANGED pc
    /\ UNCHANGED <<cfg, engine, lvl, level_start, results, reqs, wave_sizes,
                   fails, now>>

\* one list shared by every call of run_concurrent_requests
SharedMetricsList(previous) == previous

\* all_metrics = []: a call collects into a list of its own, whatever an
\* earlier call has collected
NewMetricsList(previous) == <<>>

\* the range is exhausted: the session is closed and all_metrics returned
RunFinished == ~run.gathering /\ run.batch_start >= run.num_requests

(***************************************************************************)
(* calculate_aggregated_metrics.  A float quotient a / b is kept as the    *)
(* fraction [num |-> a, den |-> b]; fractions are compared by cross        *)
(* multiplication.                                                         *)
(***************************************************************************)
Frac(a, b) == [num |-> a, den |-> b]
FracEq(x, y) == x.num * y.den = y.num * x.den
FracLess(x, y) == x.num * y.den < y.num * x.den

RECURSIVE Successful(_)
Successful(ms) ==
    IF ms = <<>> THEN <<>>
    ELSE (IF Head(ms).success THEN <<Head(ms)>> ELSE <<>>) \o Successful(Tail(ms))

RECURSIVE SumTtft(_)
SumTtft(ms) == IF ms = <<>> THEN 0 ELSE Head(ms).ttft + SumTtft(Tail(ms))

RECURSIVE SumLatency(_)
SumLatency(ms) == IF ms = <<>> THEN 0 ELSE Head(ms).latency + SumLatency(Tail(ms))

RECURSIVE SumTokens(_)
SumTokens(ms) ==
    IF ms = <<>> THEN 0 ELSE Head(ms).tokens_generated + SumTokens(Tail(ms))

AggregatedMetrics(concurrency, avg_ttft, avg_latency, throughput, total_tokens, token_throughput, success_rate, num_requests) ==
    [concurrency |-> concurrency, avg_ttft |-> avg_ttft,
     avg_latency |-> avg_latency, throughput |-> throughput,
     total_tokens |-> total_tokens, token_throughput |-> token_throughput,
     success_rate |-> success_rate, num_requests |-> num_requests]

\* the throughput divisions moved above the "if not successful" return
AggregationRaisesBeforeFilter(metrics_list, total_duration) == total_duration = 0

\* an "if total_duration <= 0: raise ValueError" guard at the top of the function
AggregationRaisesOnNonPositive(metrics_list, total_duration) == total_duration <= 0

\* the divisions by total_duration raise ZeroDivisionError when it is zero
AggregationRaises(metrics_list, total_duration) ==
    Successful(metrics_list) # <<>> /\ total_duration = 0

\* the averages and the token sum taken over metrics_list instead of successful
calculate_aggregated_metrics_unfiltered(metrics_list, concurrency, total_duration) ==
    LET successful == Successful(metrics_list) IN
    IF successful = <<>>
    THEN AggregatedMetrics(concurrency, Frac(0, 1), Frac(0, 1), Frac(0, 1), 0,
                           Frac(0, 1), Frac(0, 1), Len(metrics_list))
    ELSE AggregatedMetrics(concurrency,
                           Frac(SumTtft(metrics_list), Len(metrics_list)),
                           Frac(SumLatency(metrics_list), Len(metrics_list)),
                           Frac(Len(successful), total_duration),
                           SumTokens(metrics_list),
                           Frac(SumTokens(metrics_list), total_duration),
                           Frac(Len(successful) * 100, Len(metrics_list)),
                           Len(metrics_list))

calculate_aggregated_metrics(metrics_list, concurrency, total_duration) ==
    LET successful == Successful(metrics_list) IN
    IF successful = <<>>
    THEN AggregatedMetrics(concurrency, Frac(0, 1), Frac(0, 1), Frac(0, 1), 0,
                           Frac(0, 1), Frac(0, 1), Len(metrics_list))
    ELSE AggregatedMetrics(concurrency,
                           Frac(SumTtft(successful), Len(successful)),
                           Frac(SumLatency(successful), Len(successful)),
                           Frac(Len(successful), total_duration),
                           SumTokens(successful),
                           Frac(SumTokens(successful), total_duration),
                           Frac(Len(successful) * 100, Len(metrics_list)),
                           Len(metrics_list))

(***************************************************************************)
(* benchmark_engine and run_benchmark                                      *)
(***************************************************************************)
VLLM_ENDPOINT == "http://localhost:8000/v1/chat/completions"
FRIENDLI_ENDPOINT == "http://localhost:8001/v1/chat/completions"

Endpoint(e) == IF e = 1 THEN VLLM_ENDPOINT ELSE FRIENDLI_ENDPOINT

NumEngines == 2

EmptyTable == [k \in {} |-> 0]

\* results = {concurrency: aggregated}: the table rebound at every level
StoreAlone(table, key, value) == [k \in {key} |-> value]

\* results[concurrency] = aggregated
Store(table, key, value) ==
    [k \in DOMAIN table \cup {key} |-> IF k = key THEN value ELSE table[k]]

\* a "return results" indented into the loop body
LevelsExhaustedAfterFirst(i, levels) == i > 1

\* "for concurrency in concurrency_levels" has no further item
LevelsExhausted(i, levels) == i > Len(levels)

\* run_benchmark awaits benchmark_engine for the next engine only after the
\* previous call has returned
MayBeginEngine == pc = "start" /\ engine <= NumEngines

\* benchmark_engine is entered: results = {} and the warmup call is made
BeginEngine ==
    /\ MayBeginEngine
    /\ pc' = "warmup"
    /\ results' = [results EXCEPT ![engine] = EmptyTable]
    /\ run' = NewRun(Endpoint(engine), 1, cfg.warmup)
    /\ reqs' = <<>>
    /\ all_metrics' = NewMetricsList(all_metrics)
    /\ wave_sizes' = <<>>
    /\ fails' = [fails EXCEPT !.cur = 0]
    /\ UNCHANGED <<cfg, engine, lvl, level_start, now>>

\* the warmup call returns; its list is dropped (the coroutines of a call
\* that has returned are gone)
WarmupDone ==
    /\ pc = "warmup"
    /\ RunFinished
    /\ pc' = "loop"
    /\ lvl' = 1
    /\ reqs' = <<>>
    /\ UNCHANGED <<cfg, engine, level_start, results, run, all_metrics,
                   wave_sizes, fails, now>>

\* "for concurrency in concurrency_levels" has a next item: start_time is
\* taken and the measured call is made; a level of zero makes the call's
\* range() raise before its first wave
BeginLevel ==
    /\ pc = "loop"
    /\ ~LevelsExhausted(lvl, cfg.levels)
    /\ pc' = IF RangeRaises(cfg.levels[lvl]) THEN "crashed" ELSE "level"
    /\ level_start' = now
    /\ run' = NewRun(Endpoint(engine), cfg.levels[lvl], cfg.rpl)
    /\ reqs' = <<>>
    /\ all_metrics' = NewMetricsList(all_metrics)
    /\ wave_sizes' = <<>>
    /\ fails' = [fails EXCEPT !.cur = 0]
    /\ UNCHANGED <<cfg, engine, lvl, results, now>>

\* the measured call returns: total_duration, the aggregation and
\* results[concurrency] = aggregated
LevelDone ==
    /\ pc = "level"
    /\ RunFinished
    /\ LET concurrency == cfg.levels[lvl]
           total_duration == now - level_start
       IN IF AggregationRaises(all_metrics, total_duration)
          THEN /\ pc' = "crashed"
               /\ UNCHANGED <<lvl, results, fails>>
          ELSE /\ pc' = "loop"
               /\ lvl' = lvl + 1
               /\ results' = [results EXCEPT ![engine] =
                                Store(@, concurrency,
                                      calculate_aggregated_metrics(
                                          all_metrics, concurrency, total_duration))]
               /\ fails' = [fails EXCEPT !.by[engine] =
                                Store(@, concurrency, fails.cur)]
    /\ reqs' = <<>>
    /\ UNCHANGED <<cfg, engine, level_start, run, all_metrics,
                   wave_sizes, now>>

\* the levels are exhausted: benchmark_engine returns results and its
\* locals are gone
EngineDone ==
    /\ pc = "loop"
    /\ LevelsExhausted(lvl, cfg.levels)
    /\ engine' = engine + 1
    /\ pc' = IF engine = NumEngines THEN "done" ELSE "start"
    /\ lvl' = 0
    /\ level_start' = 0
    /\ run' = IdleRun
    /\ all_metrics' = <<>>
    /\ wave_sizes' = <<>>
    /\ UNCHANGED <<cfg, results, reqs, fails, now>>

(***************************************************************************)
(* a bare call of run_concurrent_requests                                  *)
(***************************************************************************)
BatchCall ==
    /\ pc = "call"
    /\ pc' = IF RangeRaises(cfg.concurrency) THEN "crashed" ELSE "batch"
    /\ run' = NewRun(Endpoint(engine), cfg.concurrency, cfg.num_requests)
    /\ UNCHANGED <<cfg, engine, lvl, level_start, results, reqs, all_metrics,
                   wave_sizes, fails, now>>

BatchReturn ==
    /\ pc = "batch"
    /\ RunFinished
    /\ pc' = "returned"
    /\ UNCHANGED <<cfg, engine, lvl, level_start, results, run, reqs,
                   all_metrics, wave_sizes, fails, now>>

(***************************************************************************)
(* a bare call of calculate_aggregated_metrics: the value returned is kept *)
(* in results under the concurrency given, a ZeroDivisionError leaves the  *)
(* call without a value                                                    *)
(***************************************************************************)
Aggregate ==
    /\ pc = "call"
    /\ IF AggregationRaises(cfg.metrics_list, cfg.total_duration)
       THEN /\ pc' = "crashed"
            /\ UNCHANGED results
       ELSE /\ pc' = "returned"
            /\ results' = [results EXCEPT ![engine] =
                             Store(@, cfg.concurrency,
                                   calculate_aggregated_metrics(
                                       cfg.metrics_list, cfg.concurrency,
                                       cfg.total_duration))]
    /\ UNCHANGED <<cfg, engine, lvl, level_start, run, reqs, all_metrics,
                   wave_sizes, fails, now>>

(***************************************************************************)
(* q1_decorator/validator.py.  A Python object is a record with its type   *)
(* name; a dict carries its items in insertion order, a tuple its members. *)
(***************************************************************************)
Py(type, repr) == [type |-> type, repr |-> repr]
PyNone == Py("NoneType", "None")
PyDict(items) == [type |-> "dict", items |-> items]
PyTuple(items) == [type |-> "tuple", items |-> items]

\* the classes an object of the type is an instance of: bool subclasses int
Mro(type) == IF type = "bool" THEN {"bool", "int", "object"} ELSE {type, "object"}

isinstance(value, cls) == cls \in Mro(value.type)

\* a type hint by get_origin and get_args
Hint(origin, args) == [origin |-> origin, args |-> args]
DictStrInt == Hint("dict", <<"str", "int">>)
OptionalDictStrInt == Hint("Union", <<"dict[str, int]", "NoneType">>)
PlainInt == Hint("", <<>>)
NoHint == Hint("absent", <<>>)

\* get_origin(hint) is dict and get_args(hint) == (str, int)
is_dict_str_int(hint) == hint.origin = "dict" /\ hint.args = <<"str", "int">>

\* an item check without the bool test
ItemRaisesBoolAllowed(item) ==
    \/ ~isinstance(item.key, "str")
    \/ ~isinstance(item.val, "int")

\* the body of "for key, val in value.items()": does the item raise TypeError
ItemRaises(item) ==
    \/ ~isinstance(item.key, "str")
    \/ isinstance(item.val, "bool")
    \/ ~isinstance(item.val, "int")

\* validate_value: "TypeError" when it raises, "None" when it returns
validate_value(value) ==
    IF ~isinstance(value, "dict") THEN "TypeError"
    ELSE IF \E i \in DOMAIN value.items : ItemRaises(value.items[i])
         THEN "TypeError" ELSE "None"

\* a parameter of the wrapped function: its kind, its annotation and
\* whether its default is None ("None") or it has none ("empty")
Parameter(kind, hint, default) == [kind |-> kind, hint |-> hint, default |-> default]

Function(params, returns, is_async) ==
    [params |-> params, returns |-> returns, is_async |-> is_async]

\* sig.bind(*args, **kwargs) raises TypeError: a required argument is missing.
\* passed[i] is <<>> when the call gives parameter i nothing and <<v>> when
\* it gives it v (for *args and **kwargs: one more argument v).
BindRaises(func, passed) ==
    \E i \in DOMAIN func.params :
        /\ func.params[i].kind = "POSITIONAL_OR_KEYWORD"
        /\ func.params[i].default = "empty"
        /\ passed[i] = <<>>

\* bound.arguments after apply_defaults: the value, the default None, the
\* tuple of the extra positional arguments, or the dict of the extra keyword
\* arguments by name
BoundArgument(param, given) ==
    CASE param.kind = "POSITIONAL_OR_KEYWORD" ->
             IF given = <<>> THEN PyNone ELSE given[1]
      [] param.kind = "VAR_POSITIONAL" -> PyTuple(given)
      [] param.kind = "VAR_KEYWORD" ->
             PyDict([k \in DOMAIN given |->
                        [key |-> Py("str", "extra"), val |-> given[k]]])

\* the names of get_type_hints(func): the annotated parameters by position
\* and "return"; 0 stands for "return"
HintNames(func) ==
    {i \in DOMAIN func.params : func.params[i].hint # NoHint}
        \cup (IF func.returns # NoHint THEN {0} ELSE {})

HintOf(func, name) == IF name = 0 THEN func.returns ELSE func.params[name].hint

\* a loop that does not skip the return annotation
IsReturnHintNever(name) == FALSE

\* if param_name == "return": continue
IsReturnHint(name) == name = 0

\* one iteration of "for param_name, hint in hints.items()" raises
HintRaises(func, passed, name) ==
    /\ ~IsReturnHint(name)
    /\ is_dict_str_int(HintOf(func, name))
    /\ LET param_known == name \in DOMAIN func.params
           value == IF param_known
                    THEN BoundArgument(func.params[name], passed[name])
                    ELSE PyNone
           none_allowed == /\ value = PyNone
                           /\ param_known
                           /\ func.params[name].default = "None"
       IN ~none_allowed /\ validate_value(value) = "TypeError"

\* _validate_arguments: "TypeError" when it raises, "None" when it returns
validate_arguments(func, passed) ==
    IF BindRaises(func, passed) THEN "TypeError"
    ELSE IF \E name \in HintNames(func) : HintRaises(func, passed, name)
         THEN "TypeError" ELSE "None"

\* what a wrapper does once it runs: _validate_arguments, then func
Wrapped(func, passed) ==
    IF validate_arguments(func, passed) = "TypeError" THEN "TypeError"
    ELSE "invoked"

\* the wrapper is called: sync_wrapper runs at once, async_wrapper only
\* builds a coroutine
CallWrapper ==
    /\ pc = "call"
    /\ pc' = IF cfg.func.is_async THEN "coroutine"
             ELSE Wrapped(cfg.func, cfg.passed)
    /\ UNCHANGED <<cfg, engine, lvl, level_start, results, run, reqs,
                   all_metrics, wave_sizes, fails, now>>

\* the coroutine of async_wrapper is awaited
AwaitWrapper ==
    /\ pc = "coroutine"
    /\ pc' = Wrapped(cfg.func, cfg.passed)
    /\ UNCHANGED <<cfg, engine, lvl, level_start, results, run, reqs,
                   all_metrics, wave_sizes, fails, now>>

(***************************************************************************)
(* The endpoint: what a server and the network may answer                  *)
(***************************************************************************)
PayloadLine == <<"data:", " ", "x", "\n">>
DoneLine == <<"data:", " ", "[DONE]", "\n">>

RunnerLines ==
    { <<"\n">>, <<":", "x", "\n">>, <<"x", "\n">>, <<"data:", "x", "\n">>,
      PayloadLine, DoneLine, <<"data:", " ", "\n">>,
      <<" ", "data:", " ", "x", "\n">>, <<"data:", " ", "\\xff", "\n">> }
RunnerStatuses == {200, 204, 500}
RunnerBodies == {"", "oops"}
BatchLines == {PayloadLine, DoneLine}
DriverLines == {DoneLine}
HarnessStatuses == {200, 500}
HarnessBodies == {"oops"}
Exceptions == {"ClientError"}

AwaitStates == {"connecting"} \cup InFlightStates
ReadStates == {"errbody", "streaming"}

RequestStep(Lines, Statuses, Bodies, PostTicks, ReadTicks, cap, stages) ==
    \E i \in DOMAIN reqs :
        \/ StartTask(i)
        \/ Connect(i)
        \/ \E status \in Statuses, d \in PostTicks : Respond(i, status, d)
        \/ \E body \in Bodies : ErrorBody(i, body)
        \/ \E raw \in Lines, d \in ReadTicks : ReadLine(i, raw, d, cap)
        \/ \E d \in ReadTicks : EndOfStream(i, d)
        \/ \E e \in Exceptions : Raise(i, e, stages)

\* A single request is checked against every status, line and failure
\* point, the response head taking 1..MaxTick ticks and a line 0 or 1.
RunnerStep ==
    RequestStep(RunnerLines, RunnerStatuses, RunnerBodies, 1..MaxTick,
                {0, 1}, MaxLines, AwaitStates)

\* The scheduler is checked against an endpoint that answers after one tick
\* and streams at most MaxBatchLines lines.
BatchStep ==
    RequestStep(BatchLines, HarnessStatuses, HarnessBodies, {1}, {0},
                MaxBatchLines, AwaitStates)

\* The driver is checked against an endpoint that answers after one tick,
\* fails with a non-200 status or while the response is read, and streams
\* the terminator only.
DriverStep ==
    RequestStep(DriverLines, HarnessStatuses, HarnessBodies, {1}, {0}, 1,
                ReadStates)

\* The always-succeeding endpoint: every request is answered 200 after one
\* tick and streams cfg.units payload lines, then the terminator.
ScriptLine(sent, units) == IF sent < units THEN PayloadLine ELSE DoneLine

E2EStep ==
    \E i \in DOMAIN reqs :
        \/ StartTask(i)
        \/ Connect(i)
        \/ Respond(i, 200, 1)
        \/ ReadLine(i, ScriptLine(Len(reqs[i].hist), cfg.units), 0,
                    cfg.units + 1)

TEST_PROMPTS == <<"Explain the concept of recursion in programming.",
                  "What are the main differences between Python and JavaScript?">>

\* the floats 0.7 and 0.9 are kept as fractions
GENERATION_CONFIG ==
    [max_tokens |-> 256, temperature |-> Frac(7, 10), top_p |-> Frac(9, 10)]

\* benchmark_engine hands GENERATION_CONFIG to every call
Config(prompts, levels, rpl, warmup, concurrency, num_requests) ==
    [prompts |-> prompts, levels |-> levels, rpl |-> rpl, warmup |-> warmup,
     concurrency |-> concurrency, num_requests |-> num_requests,
     generation_config |-> GENERATION_CONFIG]

\* everything but the inputs before the first step
Fresh(caller) ==
    /\ pc = caller
    /\ engine = 1
    /\ lvl = 0
    /\ level_start = 0
    /\ results = [e \in 1..NumEngines |-> EmptyTable]
    /\ run = IdleRun
    /\ reqs = <<>>
    /\ all_metrics = <<>>
    /\ wave_sizes = <<>>
    /\ fails = [cur |-> 0, by |-> [e \in 1..NumEngines |-> EmptyTable]]
    /\ now = 0

InitState(caller, configs) ==
    /\ cfg \in configs
    /\ Fresh(caller)

\* run_benchmark with the two engines
LevelOrders == {<<1, 2>>, <<2, 1>>}

DriverConfigs ==
    {Config(SubSeq(TEST_PROMPTS, 1, 1), levels, rpl, warmup, 0, 0) :
        levels \in LevelOrders, rpl \in 1..MaxRpl, warmup \in 0..MaxWarmup}

Init == InitState("start", DriverConfigs)

Next ==
    \/ BeginEngine
    \/ WarmupDone
    \/ BeginLevel
    \/ LevelDone
    \/ EngineDone
    \/ LaunchWave
    \/ WaveDone
    \/ DriverStep

Spec == Init /\ [][Next]_vars

\* What the harness does by itself: the steps of run_benchmark,
\* benchmark_engine and run_concurrent_requests, and the event loop running a
\* task that is ready (its first run, and its taking a free connection).
HarnessStep ==
    \/ BeginEngine
    \/ WarmupDone
    \/ BeginLevel
    \/ LevelDone
    \/ EngineDone
    \/ LaunchWave
    \/ WaveDone
    \/ \E i \in DOMAIN reqs : StartTask(i) \/ Connect(i)

\* What the endpoint and the network do to a request of the driver: the
\* events a coroutine is suspended on
EndpointStep ==
    \E i \in DOMAIN reqs :
        \/ \E status \in HarnessStatuses : Respond(i, status, 1)
        \/ \E body \in HarnessBodies : ErrorBody(i, body)
        \/ \E raw \in DriverLines : ReadLine(i, raw, 0, 1)
        \/ EndOfStream(i, 0)
        \/ \E e \in Exceptions : Raise(i, e, ReadStates)

\* run_benchmark under an event loop that runs whatever is ready.  Nothing
\* is assumed of the endpoint: a response may never come or never end.
SpecLive == Init /\ [][Next]_vars /\ WF_vars(HarnessStep)

\* one call of run_concurrent_requests, any count and concurrency
BatchConfigs ==
    {Config(SubSeq(TEST_PROMPTS, 1, 1), <<>>, 0, 0, c, n) :
        c \in 1..MaxC, n \in 0..MaxN}

InitBatch == InitState("call", BatchConfigs)

NextBatch ==
    \/ BatchCall
    \/ LaunchWave
    \/ WaveDone
    \/ BatchReturn
    \/ BatchStep

SpecBatch == InitBatch /\ [][NextBatch]_vars

\* one request, against every endpoint behaviour
RunnerConfigs == {Config(TEST_PROMPTS, <<>>, 0, 0, 1, 1)}

InitRunner == InitState("call", RunnerConfigs)

NextRunner ==
    \/ BatchCall
    \/ LaunchWave
    \/ WaveDone
    \/ BatchReturn
    \/ RunnerStep

SpecRunner == InitRunner /\ [][NextRunner]_vars

\* one request, for the generation_config mappings a caller may hand over:
\* none, GENERATION_CONFIG, and either with keys the payload sets itself
PayloadKeys ==
    [stream |-> FALSE, model |-> "another-model", messages |-> <<>>]

Restrict(f, keys) == [k \in keys |-> f[k]]

SampleGenerationConfigs ==
    {Merge(base, Restrict(PayloadKeys, keys)) :
        base \in {GENERATION_CONFIG, Restrict(GENERATION_CONFIG, {})},
        keys \in SUBSET DOMAIN PayloadKeys}

PayloadConfigs ==
    {[Config(TEST_PROMPTS, <<>>, 0, 0, 1, 1) EXCEPT !.generation_config = g] :
        g \in SampleGenerationConfigs}

InitPayload == InitState("call", PayloadConfigs)

NextPayload ==
    \/ BatchCall
    \/ LaunchWave
    \/ WaveDone
    \/ BatchReturn
    \/ BatchStep

SpecPayload == InitPayload /\ [][NextPayload]_vars

\* run_benchmark end to end against the always-succeeding endpoint
E2EConfigs ==
    {Config(SubSeq(TEST_PROMPTS, 1, 1), <<1, 2>>, rpl, warmup, 0, 0)
         @@ [units |-> u] :
        rpl \in 1..MaxE2ERpl, warmup \in 0..1, u \in 0..MaxUnits}

InitE2E == InitState("start", E2EConfigs)

NextE2E ==
    \/ BeginEngine
    \/ WarmupDone
    \/ BeginLevel
    \/ LevelDone
    \/ EngineDone
    \/ LaunchWave
    \/ WaveDone
    \/ E2EStep

SpecE2E == InitE2E /\ [][NextE2E]_vars

\* run_benchmark with configurations that break the callee's contract: an
\* empty TEST_PROMPTS, a level of zero, no requests per level
MisuseLevels == {<<1>>, <<0>>, <<1, 0>>}

MisuseConfigs ==
    {Config(prompts, levels, rpl, warmup, 0, 0) :
        prompts \in {<<>>, SubSeq(TEST_PROMPTS, 1, 1)},
        levels \in MisuseLevels, rpl \in 0..MaxRpl, warmup \in 0..MaxWarmup}

InitMisuse == InitState("start", MisuseConfigs)

NextMisuse ==
    \/ BeginEngine
    \/ WarmupDone
    \/ BeginLevel
    \/ LevelDone
    \/ EngineDone
    \/ LaunchWave
    \/ WaveDone
    \/ DriverStep

SpecMisuse == InitMisuse /\ [][NextMisuse]_vars

\* one call of a function wrapped by validate_dict_str_int.  An item of a
\* dict has a str or an int key and an int, bool, float or str value.
SampleKeys == {Py("str", "a"), Py("int", "123")}
SampleVals == {Py("int", "1"), Py("bool", "True"), Py("float", "19.99"),
               Py("str", "alice")}
SampleItems == {[key |-> k, val |-> v] : k \in SampleKeys, v \in SampleVals}
SampleObjects ==
    {PyNone, Py("str", "not a dict"), Py("int", "5")}
        \cup {PyDict(items) : items \in SeqsUpTo(SampleItems, MaxItems)}

SampleParameters ==
    {Parameter("POSITIONAL_OR_KEYWORD", h, d) :
        h \in {DictStrInt, OptionalDictStrInt, PlainInt}, d \in {"empty", "None"}}
        \cup {Parameter(k, h, "empty") :
                k \in {"VAR_POSITIONAL", "VAR_KEYWORD"},
                h \in {DictStrInt, PlainInt}}

\* the parameter lists Python accepts: **kwargs last, *args before it, no
\* parameter without a default after one with a default
IsSignature(params) ==
    \A i, j \in DOMAIN params :
        i < j =>
            /\ params[i].kind # "VAR_KEYWORD"
            /\ params[j].kind = "VAR_POSITIONAL" => params[i].kind # "VAR_POSITIONAL"
            /\ params[j].kind = "POSITIONAL_OR_KEYWORD" =>
                   /\ params[i].kind = "POSITIONAL_OR_KEYWORD"
                   /\ params[i].default = "None" => params[j].default = "None"

SampleFunctions ==
    {Function(params, returns, is_async) :
        params \in {ps \in SeqsUpTo(SampleParameters, MaxParams) :
                       ps # <<>> /\ IsSignature(ps)},
        returns \in {NoHint, DictStrInt}, is_async \in BOOLEAN}

\* what a call gives each parameter: nothing or one object
Givens(func) == [DOMAIN func.params -> SeqsUpTo(SampleObjects, 1)]

InitValidator ==
    /\ \E func \in SampleFunctions : \E given \in Givens(func) :
           cfg = [func |-> func, passed |-> given]
    /\ Fresh("call")

NextValidator == CallWrapper \/ AwaitWrapper

SpecValidator == InitValidator /\ [][NextValidator]_vars

\* one call of calculate_aggregated_metrics.  The records are any the
\* RequestMetrics dataclass can hold: successes with and without tokens, a
\* failure as send_single_request builds it, and a failure carrying numbers.
SampleMetrics ==
    { RequestMetrics(1, 2, 1, TRUE, NoError),
      RequestMetrics(0, 3, 0, TRUE, NoError),
      RequestMetrics(0, 0, 0, FALSE, ErrorText(<<"ClientError">>)),
      RequestMetrics(2, 5, 3, FALSE, ErrorText(<<"ClientError">>)) }

AggregatorCall(metrics_list, concurrency, total_duration) ==
    [metrics_list |-> metrics_list, concurrency |-> concurrency,
     total_duration |-> total_duration]

AggregatorCalls ==
    {AggregatorCall(ms, c, d) :
        ms \in SeqsUpTo(SampleMetrics, MaxList), c \in 1..MaxC,
        d \in (0 - MaxDuration)..MaxDuration}

InitAgg == InitState("call", AggregatorCalls)

NextAgg == Aggregate

SpecAgg == InitAgg /\ [][NextAgg]_vars

(***************************************************************************)
(* Properties of run_concurrent_requests (SpecBatch)                       *)
(***************************************************************************)
CeilDiv(n, c) == (n + c - 1) \div c

IsHttpFailure(r) == r.st = "resolved" /\ r.body_read
IsException(r) == r.st = "resolved" /\ r.exc.some
IsSuccess(r) == r.st = "resolved" /\ r.result.success

\* C1: a call with count N and concurrency C >= 1 returns exactly N
\* RequestMetrics, the record of slot i being the one request i resolved to,
\* whatever the outcomes of the requests; the call never ends in an exception.
C1_ExactlyOneRecordPerSlot ==
    /\ pc # "crashed"
    /\ pc = "returned" =>
          /\ Len(all_metrics) = cfg.num_requests
          /\ Len(reqs) = cfg.num_requests
          /\ \A i \in 1..cfg.num_requests :
                /\ reqs[i].st = "resolved"
                /\ all_metrics[i] = reqs[i].result

C1_Witness ==
    /\ pc = "returned"
    /\ cfg.num_requests = 3
    /\ cfg.concurrency = 2
    /\ \E i, j, k \in DOMAIN reqs :
          IsSuccess(reqs[i]) /\ IsHttpFailure(reqs[j]) /\ IsException(reqs[k])

\* the requests issued before wave k: the sizes of the waves before it
RECURSIVE IssuedBefore(_)
IssuedBefore(k) == IF k <= 1 THEN 0 ELSE wave_sizes[k - 1] + IssuedBefore(k - 1)

\* C2: the call launches ceil(N/C) waves; wave k has size
\* min(C, N - requests issued so far): C for every wave but the last, and
\* N - C*(ceil(N/C)-1) for the last.
C2_WaveSizes ==
    /\ pc \in {"batch", "returned"} =>
          \A k \in DOMAIN wave_sizes :
              wave_sizes[k] = Min(cfg.concurrency,
                                  cfg.num_requests - IssuedBefore(k))
    /\ pc = "returned" =>
          LET N == cfg.num_requests
              C == cfg.concurrency
              W == CeilDiv(N, C)
          IN /\ Len(wave_sizes) = W
             /\ \A k \in 1..(W - 1) : wave_sizes[k] = C
             /\ W > 0 => wave_sizes[W] = N - C * (W - 1)

C2_Witness ==
    /\ pc = "returned"
    /\ cfg.num_requests = 3
    /\ cfg.concurrency = 2
    /\ wave_sizes = <<2, 1>>

\* C3: no request of a later wave exists (has its prompt chosen, or is
\* dispatched) until every request of the earlier waves has resolved;
\* requests of one wave are in flight together and resolve in any order.
C3_WavesSequential ==
    \A i, j \in DOMAIN reqs :
        reqs[i].wave < reqs[j].wave => reqs[i].st = "resolved"

\* slot 2 of the first wave resolved before slot 1, and a request of the
\* second wave is in flight
C3_Witness ==
    /\ Len(reqs) = 3
    /\ reqs[3].wave = 2
    /\ reqs[3].st \in InFlightStates
    /\ reqs[1].wave = 1
    /\ reqs[2].wave = 1
    /\ IsSuccess(reqs[1])
    /\ IsSuccess(reqs[2])
    /\ reqs[1].start_time = reqs[2].start_time
    /\ reqs[2].result.latency < reqs[1].result.latency

\* C4: at most C requests are in flight at any time, and the connection
\* pool of the call has capacity exactly C.
C4_InFlightBounded ==
    pc \in {"batch", "returned"} =>
        /\ InFlight <= cfg.concurrency
        /\ run.limit = cfg.concurrency

C4_Witness ==
    /\ pc = "batch"
    /\ cfg.concurrency = MaxC
    /\ InFlight = MaxC

(***************************************************************************)
(* Properties of run_benchmark (Spec)                                      *)
(***************************************************************************)
Levels == Range(cfg.levels)

\* C5: the engines are benchmarked one after the other: every request of
\* the current call goes to the current engine's endpoint, and a request to
\* the second engine's endpoint exists only once the first engine's warmup
\* and all its levels have completed and been aggregated.
C5_EnginesSequential ==
    \A i \in DOMAIN reqs :
        /\ engine \in 1..NumEngines => reqs[i].endpoint = Endpoint(engine)
        /\ reqs[i].endpoint = FRIENDLI_ENDPOINT =>
              /\ engine = 2
              /\ DOMAIN results[1] = Levels
              /\ \A k \in Levels : results[1][k].num_requests = cfg.rpl

C5_Witness ==
    /\ engine = 2
    /\ pc = "warmup"
    /\ \E i \in DOMAIN reqs :
          reqs[i].endpoint = FRIENDLI_ENDPOINT /\ reqs[i].st \in InFlightStates

\* C6: a failed request never aborts the run: no exception reaches the
\* scheduler or the driver, and the run ends with both ResultTables holding
\* an entry for every level, each over all requests of the level, whose
\* success_rate is lowered by exactly the failures of that level.
C6_FailureNeverAborts ==
    /\ pc # "crashed"
    /\ \A i \in DOMAIN reqs : reqs[i].st # "raised"
    /\ pc = "done" =>
          \A e \in 1..NumEngines :
              /\ DOMAIN results[e] = Levels
              /\ \A k \in Levels :
                    /\ results[e][k].num_requests = cfg.rpl
                    /\ FracEq(results[e][k].success_rate,
                              Frac(100 * (cfg.rpl - fails.by[e][k]), cfg.rpl))

C6_Witness ==
    /\ pc = "done"
    /\ cfg.rpl = 2
    /\ fails.by[1][1] = 1
    /\ FracEq(results[1][1].success_rate, Frac(50, 1))
    /\ FracEq(results[1][2].success_rate, Frac(100, 1))
    /\ \A e \in 1..NumEngines : DOMAIN results[e] = Levels

(***************************************************************************)
(* Properties of send_single_request (SpecRunner)                          *)
(***************************************************************************)
Contains(text, a) == a = "" \/ a \in Range(text)

Zeroed(m) ==
    ~m.success /\ m.ttft = 0 /\ m.latency = 0 /\ m.tokens_generated = 0

Non200(r) == r.st = "resolved" /\ r.status # NoStatus /\ r.status # 200

\* C7 as claimed: whenever the status is not 200 the record is a zeroed
\* failure whose error text contains the status code and the body, and no
\* stream line was parsed.
C7_Claimed ==
    \A i \in DOMAIN reqs :
        Non200(reqs[i]) =>
            /\ Zeroed(reqs[i].result)
            /\ reqs[i].result.error.some
            /\ Contains(reqs[i].result.error.text, StatusText(reqs[i].status))
            /\ reqs[i].body_read
            /\ reqs[i].hist = <<>>

\* C7 amended: whenever the status is not 200 the record is a zeroed
\* failure and no stream line is parsed or counted; its error text is
\* "HTTP <status>: <body>" when the body was read, and the text of the
\* exception when reading the body raised.
C7_Non200IsFailure ==
    \A i \in DOMAIN reqs :
        Non200(reqs[i]) =>
            /\ Zeroed(reqs[i].result)
            /\ reqs[i].hist = <<>>
            /\ reqs[i].tokens_generated = 0
            /\ reqs[i].first_token_time = None
            /\ reqs[i].body_read =>
                  /\ reqs[i].result.error =
                        ErrorText(<<"HTTP ", StatusText(reqs[i].status), ": ",
                                    reqs[i].body>>)
                  /\ Contains(reqs[i].result.error.text,
                              StatusText(reqs[i].status))
                  /\ Contains(reqs[i].result.error.text, reqs[i].body)
            /\ ~reqs[i].body_read =>
                  /\ reqs[i].exc.some
                  /\ reqs[i].result.error = reqs[i].exc

C7_Witness ==
    \E i \in DOMAIN reqs :
        /\ Non200(reqs[i])
        /\ reqs[i].status = 500
        /\ reqs[i].body_read
        /\ reqs[i].body = "oops"
        /\ pc = "returned"

\* C8: an exception raised while sending or reading, also after payload
\* lines were counted and the first-output time taken, gives a zeroed
\* failure carrying the exception's text; the partial counts are dropped and
\* the exception does not reach run_concurrent_requests, which returns the
\* record.
C8_ExceptionIsFailure ==
    /\ pc # "crashed"
    /\ \A i \in DOMAIN reqs :
          /\ reqs[i].st # "raised"
          /\ reqs[i].exc.some =>
                /\ reqs[i].st = "resolved"
                /\ Zeroed(reqs[i].result)
                /\ reqs[i].result.error = reqs[i].exc
                /\ pc = "returned" => all_metrics[i] = reqs[i].result

C8_Witness ==
    \E i \in DOMAIN reqs :
        /\ reqs[i].exc.some
        /\ reqs[i].tokens_generated = 2
        /\ reqs[i].first_token_time # None
        /\ Zeroed(reqs[i].result)
        /\ pc = "returned"

\* A line as it is on the wire, without its terminator.
Unterminated(raw) ==
    IF raw # <<>> /\ raw[Len(raw)] = "\n" THEN SubSeq(raw, 1, Len(raw) - 1) ELSE raw

\* The line carries the 'data: ' marker / its payload, as written.
CarriesMarker(raw) == StartsWith(Unterminated(raw), <<"data:", " ">>)
PayloadOf(raw) == SubSeq(Unterminated(raw), 3, Len(Unterminated(raw)))

\* The same, once the whitespace around the line is removed.
CarriesMarkerStripped(raw) == StartsWith(Strip(raw), <<"data:", " ">>)
PayloadOfStripped(raw) == SubSeq(Strip(raw), 3, Len(Strip(raw)))

IsTerminatorAsWritten(raw) == CarriesMarker(raw) /\ PayloadOf(raw) = <<"[DONE]">>
IsPayloadAsWritten(raw) == CarriesMarker(raw) /\ PayloadOf(raw) # <<"[DONE]">>
IsTerminatorStripped(raw) ==
    CarriesMarkerStripped(raw) /\ PayloadOfStripped(raw) = <<"[DONE]">>
IsPayloadStripped(raw) ==
    CarriesMarkerStripped(raw) /\ PayloadOfStripped(raw) # <<"[DONE]">>

\* the payload lines of h before its first terminator line
RECURSIVE CountAsWritten(_)
CountAsWritten(h) ==
    IF h = <<>> \/ IsTerminatorAsWritten(Head(h)) THEN 0
    ELSE (IF IsPayloadAsWritten(Head(h)) THEN 1 ELSE 0) + CountAsWritten(Tail(h))

RECURSIVE CountStripped(_)
CountStripped(h) ==
    IF h = <<>> \/ IsTerminatorStripped(Head(h)) THEN 0
    ELSE (IF IsPayloadStripped(Head(h)) THEN 1 ELSE 0) + CountStripped(Tail(h))

Completed(r) == r.st = "resolved" /\ r.status = 200 /\ ~r.exc.some

\* C9 as claimed: tokens_generated is the number of lines, before the first
\* 'data: [DONE]' line, that carry the 'data: ' marker with another payload,
\* the lines being taken as they are written.
C9_Claimed ==
    \A i \in DOMAIN reqs :
        Completed(reqs[i]) =>
            reqs[i].result.tokens_generated =
                CountAsWritten(reqs[i].hist)

\* C9 amended: for a stream read without an exception, tokens_generated is
\* the number of lines that, once leading and trailing whitespace is
\* removed, start with 'data: ' and continue with something other than
\* '[DONE]', among the lines before the first one that is 'data: [DONE]'
\* once stripped; every other line leaves the counter unchanged and is no
\* error, and nothing is read after that terminator.
C9_TokensCountPayloadLines ==
    \A i \in DOMAIN reqs :
        /\ reqs[i].st = "streaming" =>
              reqs[i].tokens_generated =
                  CountStripped(reqs[i].hist)
        /\ Completed(reqs[i]) =>
              /\ reqs[i].result.success
              /\ reqs[i].result.tokens_generated =
                    CountStripped(reqs[i].hist)
              /\ \A k \in 1..(Len(reqs[i].hist) - 1) :
                    ~IsTerminatorStripped(reqs[i].hist[k])

C9_Witness ==
    \E i \in DOMAIN reqs :
        /\ Completed(reqs[i])
        /\ reqs[i].hist = <<<<"x", "\n">>, PayloadLine, DoneLine>>
        /\ reqs[i].result.tokens_generated = 1

PayloadLinesSeen(r) == CountStripped(r.hist)

C10_State ==
    \A i \in DOMAIN reqs :
        /\ reqs[i].first_token_time # None <=> reqs[i].tokens_generated >= 1
        /\ Completed(reqs[i]) =>
              /\ reqs[i].result.success
              /\ reqs[i].result.tokens_generated = PayloadLinesSeen(reqs[i])
              /\ PayloadLinesSeen(reqs[i]) >= 1 =>
                    /\ 0 < reqs[i].result.ttft
                    /\ reqs[i].result.ttft <= reqs[i].result.latency
                    /\ reqs[i].result.ttft =
                          reqs[i].first_token_time - reqs[i].start_time
              /\ PayloadLinesSeen(reqs[i]) = 0 => reqs[i].result.ttft = 0

C10_Step ==
    \A i \in DOMAIN reqs :
        reqs[i].first_token_time # None =>
            /\ i \in DOMAIN reqs'
            /\ reqs'[i].first_token_time = reqs[i].first_token_time

\* C10: a 200 response streaming k >= 1 payload lines and then the
\* terminator gives success with tokens_generated = k and 0 < ttft <=
\* latency; the first-output time is taken at the first payload line and
\* never changes afterwards; a success without a payload line has ttft = 0.
C10_FirstTokenTiming == [](C10_State) /\ [][C10_Step]_vars

C10_Witness ==
    \E i \in DOMAIN reqs :
        /\ Completed(reqs[i])
        /\ reqs[i].hist = <<PayloadLine, PayloadLine, DoneLine>>
        /\ reqs[i].result.tokens_generated = 2
        /\ 0 < reqs[i].result.ttft
        /\ reqs[i].result.ttft < reqs[i].result.latency

(***************************************************************************)
(* Properties of calculate_aggregated_metrics (SpecAgg)                    *)
(***************************************************************************)
CallOver == pc \in {"returned", "crashed"}
Aggregated == results[engine][cfg.concurrency]
Successes == SelectSeq(cfg.metrics_list, LAMBDA m : m.success)
IsZero(x) == x.num = 0 /\ x.den # 0

\* C11: for every list without a success, the empty list included, and
\* every duration, zero included, calculate_aggregated_metrics returns
\* without a division error, every average, throughput and rate being 0,
\* total_tokens 0, num_requests the length of the list and concurrency the
\* level given.
C11_NoSuccessAllZero ==
    (CallOver /\ Successes = <<>>) =>
        /\ pc = "returned"
        /\ IsZero(Aggregated.avg_ttft)
        /\ IsZero(Aggregated.avg_latency)
        /\ IsZero(Aggregated.throughput)
        /\ Aggregated.total_tokens = 0
        /\ IsZero(Aggregated.token_throughput)
        /\ IsZero(Aggregated.success_rate)
        /\ Aggregated.num_requests = Len(cfg.metrics_list)
        /\ Aggregated.concurrency = cfg.concurrency

\* a list of failures only, one of them carrying numbers, aggregated over a
\* zero duration
C11_Witness ==
    /\ pc = "returned"
    /\ Successes = <<>>
    /\ Len(cfg.metrics_list) >= 2
    /\ \E i \in DOMAIN cfg.metrics_list : cfg.metrics_list[i].tokens_generated > 0
    /\ cfg.total_duration = 0

RECURSIVE SumOf(_, _)
SumOf(ms, field) == IF ms = <<>> THEN 0 ELSE Head(ms)[field] + SumOf(Tail(ms), field)

\* C12: with at least one success and a positive duration D the call
\* returns throughput = count(successes)/D, token_throughput =
\* total_tokens/D, success_rate = 100*count(successes)/count(all) within
\* [0, 100], num_requests = count(all), and avg_ttft, avg_latency and
\* total_tokens taken over the successful records only.
C12_AggregatesOverSuccesses ==
    (CallOver /\ Successes # <<>> /\ cfg.total_duration > 0) =>
        LET D == cfg.total_duration
            count == Len(Successes)
            all == Len(cfg.metrics_list)
        IN /\ pc = "returned"
           /\ FracEq(Aggregated.throughput, Frac(count, D))
           /\ Aggregated.total_tokens = SumOf(Successes, "tokens_generated")
           /\ FracEq(Aggregated.token_throughput,
                     Frac(SumOf(Successes, "tokens_generated"), D))
           /\ FracEq(Aggregated.success_rate, Frac(100 * count, all))
           /\ Aggregated.success_rate.den > 0
           /\ 0 <= Aggregated.success_rate.num
           /\ Aggregated.success_rate.num <= 100 * Aggregated.success_rate.den
           /\ Aggregated.num_requests = all
           /\ FracEq(Aggregated.avg_ttft, Frac(SumOf(Successes, "ttft"), count))
           /\ FracEq(Aggregated.avg_latency,
                     Frac(SumOf(Successes, "latency"), count))

\* two different successes and a failure carrying numbers, aggregated over a
\* duration of 2
C12_Witness ==
    /\ pc = "returned"
    /\ cfg.total_duration = 2
    /\ Len(Successes) = 2
    /\ Successes[1] # Successes[2]
    /\ \E i \in DOMAIN cfg.metrics_list :
           /\ ~cfg.metrics_list[i].success
           /\ cfg.metrics_list[i].tokens_generated > 0

\* C16 as claimed: a zero or negative total_duration stops the call with an
\* error, whatever the list.
C16_Claimed == (CallOver /\ cfg.total_duration <= 0) => pc = "crashed"

\* C16: with a total_duration of zero or less the call raises exactly when
\* the duration is zero and the list holds a success; without a success it
\* returns the all-zero record, and with a success and a negative duration
\* it returns a negative throughput.
C16_NonPositiveDuration ==
    (CallOver /\ cfg.total_duration <= 0) =>
        /\ pc = "crashed" <=> (Successes # <<>> /\ cfg.total_duration = 0)
        /\ (pc = "returned" /\ Successes = <<>>) => IsZero(Aggregated.throughput)
        /\ (pc = "returned" /\ Successes # <<>>) =>
               /\ FracEq(Aggregated.throughput,
                         Frac(Len(Successes), cfg.total_duration))
               /\ Aggregated.throughput.num * Aggregated.throughput.den < 0

\* a success aggregated over a negative duration has been returned
C16_Witness ==
    /\ pc = "returned"
    /\ cfg.total_duration < 0
    /\ Successes # <<>>
    /\ Aggregated.throughput.num * Aggregated.throughput.den < 0

(***************************************************************************)
(* Properties of benchmark_engine (Spec)                                   *)
(***************************************************************************)
Unresolved == {i \in DOMAIN reqs : reqs[i].st # "resolved"}

C13_State ==
    /\ pc = "warmup" =>
           /\ run.concurrency = 1
           /\ run.num_requests = cfg.warmup
           /\ results[engine] = EmptyTable
           /\ \A k \in DOMAIN wave_sizes : wave_sizes[k] = 1
           /\ Len(reqs) <= cfg.warmup
           /\ Cardinality(Unresolved) <= 1
    /\ pc = "level" =>
           /\ Len(reqs) <= cfg.rpl
           /\ Len(all_metrics) <= cfg.rpl
    /\ \A e \in 1..NumEngines : \A k \in DOMAIN results[e] :
           /\ results[e][k].num_requests = cfg.rpl
           /\ FracEq(results[e][k].success_rate,
                     Frac(100 * (cfg.rpl - fails.by[e][k]), cfg.rpl))

C13_Step ==
    /\ (pc = "warmup" /\ pc' # "warmup") =>
           /\ pc' = "loop"
           /\ Len(reqs) = cfg.warmup
           /\ Unresolved = {}
           /\ Len(all_metrics) = cfg.warmup
           /\ results' = results
    /\ (pc # "level" /\ pc' = "level") =>
           /\ reqs' = <<>>
           /\ all_metrics' = <<>>

\* C13: before any measured level of an engine the warmup runs
\* warmup_requests requests at concurrency 1, one at a time, and all of them
\* are resolved when the first measured call is made; nothing of the warmup
\* is stored: a measured call starts from an empty list and every stored
\* entry has num_requests = requests_per_level and a success_rate made of
\* the level's own failures only.
C13_WarmupDiscarded == [](C13_State) /\ [][C13_Step]_vars

\* the warmup of the second engine has returned with two records, one of
\* them a failure, while the first engine's table is complete
C13_Witness ==
    /\ engine = 2
    /\ pc = "loop"
    /\ lvl = 1
    /\ cfg.warmup = 2
    /\ Len(all_metrics) = 2
    /\ fails.cur = 1
    /\ DOMAIN results[1] = Levels
    /\ \A k \in Levels : results[1][k].num_requests = cfg.rpl

LevelsBefore(i) == {cfg.levels[j] : j \in 1..(i - 1)}

C14_State ==
    /\ \A e \in 1..NumEngines : \A k \in DOMAIN results[e] :
           /\ k \in Levels
           /\ results[e][k].concurrency = k
    /\ pc \in {"loop", "level"} =>
           /\ DOMAIN results[engine] = LevelsBefore(lvl)
           /\ \A e \in 1..(engine - 1) : DOMAIN results[e] = Levels
    /\ pc = "level" =>
           /\ run.concurrency = cfg.levels[lvl]
           /\ run.num_requests = cfg.rpl
           /\ \A i \in DOMAIN reqs : reqs[i].endpoint = Endpoint(engine)
    /\ pc = "done" => \A e \in 1..NumEngines : DOMAIN results[e] = Levels

C14_Step ==
    /\ (pc = "level" /\ pc' # "level") =>
           /\ pc' = "loop"
           /\ lvl' = lvl + 1
           /\ Unresolved = {}
           /\ Len(all_metrics) = cfg.rpl
           /\ DOMAIN results'[engine] = DOMAIN results[engine] \cup {cfg.levels[lvl]}
           /\ results'[engine][cfg.levels[lvl]].concurrency = cfg.levels[lvl]
           /\ results'[engine][cfg.levels[lvl]].num_requests = Len(all_metrics)
    /\ (pc # "level" /\ pc' = "level") =>
           /\ pc = "loop"
           /\ DOMAIN results[engine] = LevelsBefore(lvl)
           /\ lvl' = lvl
    /\ results' # results => (pc = "start" \/ pc = "level")

\* C14: an engine's levels run one at a time in the configured order, a
\* level's requests all resolved and its record stored before the next
\* level's call is made; each record is stored under its level with its
\* concurrency field equal to that key, and at the end both tables have
\* the set of configured levels as their keys.
C14_LevelsInOrder == [](C14_State) /\ [][C14_Step]_vars

\* the run is over for the levels configured as 2, 1, with a failure at
\* level 2 of the first engine
C14_Witness ==
    /\ pc = "done"
    /\ cfg.levels = <<2, 1>>
    /\ cfg.rpl = 2
    /\ DOMAIN results[1] = {1, 2}
    /\ DOMAIN results[2] = {1, 2}
    /\ fails.by[1][2] > 0
    /\ fails.by[2][1] = 0

(***************************************************************************)
(* No retry (SpecBatch)                                                    *)
(***************************************************************************)
RECURSIVE Dispatches(_)
Dispatches(rs) == IF rs = <<>> THEN 0 ELSE Head(rs).posts + Dispatches(Tail(rs))

C15_State ==
    /\ \A i \in DOMAIN reqs :
           /\ reqs[i].posts <= 1
           /\ reqs[i].st # "created" => reqs[i].posts = 1
    /\ pc = "returned" =>
           /\ Len(reqs) = cfg.num_requests
           /\ Dispatches(reqs) = cfg.num_requests
           /\ \A i \in DOMAIN reqs : reqs[i].posts = 1

C15_Step ==
    \A i \in DOMAIN reqs :
        reqs[i].st = "resolved" => (i \in DOMAIN reqs' /\ reqs'[i] = reqs[i])

\* C15: no request is retried: every slot of a run_concurrent_requests run
\* calls session.post exactly once, whatever its outcome, so a run of N
\* slots has made exactly N dispatches when it returns, and a slot that has
\* resolved, failed or not, never changes again.
C15_NeverRetried == [](C15_State) /\ [][C15_Step]_vars

\* a run of three slots has returned: one succeeded, one was answered with
\* a non-200 status and one raised
C15_Witness ==
    /\ pc = "returned"
    /\ cfg.num_requests = 3
    /\ Dispatches(reqs) = 3
    /\ \E i, j, k \in DOMAIN reqs :
           /\ IsSuccess(reqs[i])
           /\ IsHttpFailure(reqs[j])
           /\ IsException(reqs[k])

(***************************************************************************)
(* Broken caller contracts (SpecMisuse)                                    *)
(***************************************************************************)
InCall == pc \in {"warmup", "level"}

\* C17 as claimed: with an empty prompt corpus or a concurrency of zero no
\* call of run_concurrent_requests returns, whatever its request count, and
\* nothing is stored.
C17_Claimed ==
    /\ cfg.prompts = <<>> =>
           /\ pc \notin {"loop", "done"}
           /\ \A e \in 1..NumEngines : results[e] = EmptyTable
    /\ \A e \in 1..NumEngines : 0 \notin DOMAIN results[e]

C17_State ==
    /\ cfg.prompts = <<>> => reqs = <<>>
    /\ InCall => run.concurrency # 0
    /\ \A e \in 1..NumEngines : 0 \notin DOMAIN results[e]
    /\ (pc = "crashed" /\ lvl >= 1) => cfg.levels[lvl] \notin DOMAIN results[engine]
    /\ (pc = "crashed" /\ lvl = 0) => results[engine] = EmptyTable

C17_Step ==
    /\ (InCall /\ cfg.prompts = <<>> /\ run.num_requests > 0) => pc' = "crashed"
    /\ (InCall /\ pc' = "loop" /\ cfg.prompts = <<>>) =>
           /\ run.num_requests = 0
           /\ all_metrics = <<>>
    /\ (pc = "loop" /\ pc' # "loop" /\ ~LevelsExhausted(lvl, cfg.levels)
            /\ cfg.levels[lvl] = 0) =>
           /\ pc' = "crashed"
           /\ results' = results
           /\ reqs' = <<>>
    /\ pc = "crashed" => pc' = "crashed"

\* C17: a call of run_concurrent_requests with a concurrency of zero raises
\* before any request exists, whatever its request count; with an empty
\* prompt corpus it raises before any request exists when it has at least
\* one request to issue, and returns an empty list when it has none (a
\* warmup of zero requests).  Nothing is stored for the level whose call
\* raised, and nothing happens after it.
C17_ContractViolations == [](C17_State) /\ [][C17_Step]_vars

\* with an empty corpus the warmup of zero requests has returned and the
\* first level's call has raised, nothing being stored
C17_Witness ==
    /\ pc = "crashed"
    /\ cfg.prompts = <<>>
    /\ cfg.warmup = 0
    /\ cfg.rpl > 0
    /\ lvl = 1
    /\ cfg.levels[1] = 1
    /\ results[1] = EmptyTable

(***************************************************************************)
(* End to end (SpecE2E)                                                    *)
(***************************************************************************)
\* C18: against an endpoint that always answers 200 with u payload lines
\* and then the terminator, every stored entry has success_rate = 100,
\* num_requests = requests_per_level and total_tokens = u *
\* requests_per_level, and at the end each engine's table has exactly the
\* keys 1 and 2; for levels 1, 2, four requests per level, no warmup and
\* u = 2 that is total_tokens = 8 and num_requests = 4.
C18_EndToEnd ==
    /\ pc # "crashed"
    /\ \A e \in 1..NumEngines : \A k \in DOMAIN results[e] :
           /\ FracEq(results[e][k].success_rate, Frac(100, 1))
           /\ results[e][k].num_requests = cfg.rpl
           /\ results[e][k].total_tokens = cfg.units * cfg.rpl
           /\ (cfg.rpl = 4 /\ cfg.units = 2) => results[e][k].total_tokens = 8
    /\ pc = "done" => \A e \in 1..NumEngines : DOMAIN results[e] = {1, 2}

\* the run of the example is over: levels 1 and 2, four requests per level,
\* no warmup, two payload lines per response
C18_Witness ==
    /\ pc = "done"
    /\ cfg.levels = <<1, 2>>
    /\ cfg.rpl = 4
    /\ cfg.warmup = 0
    /\ cfg.units = 2
    /\ \A e \in 1..NumEngines : \A k \in {1, 2} :
           /\ results[e][k].total_tokens = 8
           /\ results[e][k].num_requests = 4
           /\ results[e][k].success_rate = Frac(400, 4)

(***************************************************************************)
(* validate_dict_str_int (SpecValidator)                                   *)
(***************************************************************************)
WrapperOver == pc \in {"invoked", "TypeError"}

\* a dict whose keys are all str and whose values are all int and not bool
IsDictStrInt(v) ==
    /\ v.type = "dict"
    /\ \A i \in DOMAIN v.items :
           /\ v.items[i].key.type = "str"
           /\ v.items[i].val.type = "int"

Annotated(i) == cfg.func.params[i].hint = DictStrInt
Ordinary(i) == cfg.func.params[i].kind = "POSITIONAL_OR_KEYWORD"
Missing(i) ==
    Ordinary(i) /\ cfg.passed[i] = <<>> /\ cfg.func.params[i].default = "empty"

\* every argument of parameter i, a parameter annotated dict[str, int], is
\* a dict of str to int, or None where the parameter's default is None
ArgumentsOk(i) ==
    \A k \in DOMAIN cfg.passed[i] :
        \/ IsDictStrInt(cfg.passed[i][k])
        \/ /\ cfg.passed[i][k] = PyNone
           /\ Ordinary(i)
           /\ cfg.func.params[i].default = "None"

AllArgumentsOk == \A i \in DOMAIN cfg.func.params : Annotated(i) => ArgumentsOk(i)

\* C19: the wrapped function is invoked only when every argument annotated
\* dict[str, int] is a dict of str keys to int (not bool) values, or None
\* for a parameter whose default is None; otherwise TypeError is raised and
\* the body is not run; arguments with other annotations and the return
\* annotation are not validated.
C19_Claimed ==
    WrapperOver =>
        /\ pc = "invoked" => AllArgumentsOk
        /\ ~AllArgumentsOk => pc = "TypeError"
        /\ ((\A i \in DOMAIN cfg.func.params : ~Annotated(i) /\ ~Missing(i))
               => pc = "invoked")

\* the same for the functions all of whose parameters are ordinary ones
\* (no *args, no **kwargs): there the wrapper invokes the function exactly
\* when the call binds and every annotated argument is as required
C19_OrdinaryParameters ==
    (WrapperOver /\ \A i \in DOMAIN cfg.func.params : Ordinary(i)) =>
        (pc = "invoked" <=>
            (AllArgumentsOk /\ \A i \in DOMAIN cfg.func.params : ~Missing(i)))

(***************************************************************************)
(* The request body (SpecPayload)                                          *)
(***************************************************************************)
\* C20 as claimed: whatever generation_config holds, the body of every
\* request has stream = true, model = the model given and messages = the
\* single user message with the prompt chosen.
C20_Claimed ==
    \A i \in DOMAIN reqs :
        reqs[i].st # "created" =>
            /\ reqs[i].payload.stream = TRUE
            /\ reqs[i].payload.model = MODEL_NAME
            /\ reqs[i].payload.messages =
                   <<[role |-> "user", content |-> reqs[i].prompt]>>

\* the same for a generation_config that has none of the keys "model",
\* "messages" and "stream", to which the body adds every item of it
C20_DisjointKeys ==
    \A i \in DOMAIN reqs :
        (reqs[i].st # "created"
             /\ DOMAIN cfg.generation_config \cap DOMAIN PayloadKeys = {}) =>
            /\ reqs[i].payload.stream = TRUE
            /\ reqs[i].payload.model = MODEL_NAME
            /\ reqs[i].payload.messages =
                   <<[role |-> "user", content |-> reqs[i].prompt]>>
            /\ \A k \in DOMAIN cfg.generation_config :
                   reqs[i].payload[k] = cfg.generation_config[k]

(***************************************************************************)
(* Termination (SpecLive)                                                  *)
(***************************************************************************)
Terminal == pc = "done" /\ \A e \in 1..NumEngines : DOMAIN results[e] = Levels

\* every request the harness waits for is answered in the end
EveryRequestResolves == WF_vars(EndpointStep)

\* while a request of the current wave is unresolved no wave is launched,
\* no call returns, no level or engine begins and nothing is stored
C21_Stalled ==
    Unresolved # {} =>
        /\ pc' = pc
        /\ run' = run
        /\ lvl' = lvl
        /\ engine' = engine
        /\ results' = results
        /\ all_metrics' = all_metrics
        /\ Len(reqs') = Len(reqs)

\* C21: if every dispatched request eventually resolves, run_benchmark
\* reaches its terminal state with both tables holding every level; a
\* request that never resolves keeps its wave unresolved for ever (there is
\* no timeout in the harness): as long as it is unresolved no later wave,
\* level or engine starts, and the terminal state is never reached.
C21_Liveness ==
    /\ EveryRequestResolves => <>Terminal
    /\ (<>[](Unresolved # {})) => [](~Terminal)
    /\ [][C21_Stalled]_vars

\* the run has reached its terminal state, a request of it having failed
C21_Witness ==
    /\ Terminal
    /\ cfg.rpl = 2
    /\ \E k \in Levels : fails.by[2][k] > 0


(***************************************************************************)
(* A level larger than requests_per_level (Spec)                           *)
(***************************************************************************)

\* a concurrency level above the number of requests of a level
Oversized(k) == k > cfg.rpl

\* the statement as claimed: an oversized level is refused, so none of its
\* requests is ever created and no record is ever stored under its key
C22_Claimed ==
    /\ \A e \in 1..NumEngines : \A k \in DOMAIN results[e] : ~Oversized(k)
    /\ (pc = "level" /\ Oversized(run.concurrency)) => reqs = <<>>

C22_State ==
    /\ \A e \in 1..NumEngines : \A k \in DOMAIN results[e] :
           Oversized(k) =>
               /\ results[e][k].concurrency = k
               /\ results[e][k].num_requests = cfg.rpl
    /\ (pc = "level" /\ Oversized(run.concurrency)) =>
           /\ Len(wave_sizes) <= 1
           /\ \A w \in DOMAIN wave_sizes : wave_sizes[w] = cfg.rpl
           /\ Len(reqs) = (IF wave_sizes = <<>> THEN 0 ELSE cfg.rpl)
           /\ \A i \in DOMAIN reqs : reqs[i].wave = 1

C22_Step ==
    (pc = "level" /\ Oversized(run.concurrency) /\ pc' # "level") =>
        /\ pc' = "loop"
        /\ lvl' = lvl + 1
        /\ wave_sizes = <<cfg.rpl>>
        /\ Len(all_metrics) = cfg.rpl
        /\ cfg.levels[lvl] \in DOMAIN results'[engine]
        /\ results'[engine][cfg.levels[lvl]].num_requests = cfg.rpl

\* C22 (as amended): a concurrency level above requests_per_level is not
\* refused.  The level runs as exactly one wave of requests_per_level
\* requests, fewer than the level asks for; when they have resolved its
\* record is stored under the level's key with num_requests equal to
\* requests_per_level, and the run goes on to the next level without an
\* error.
C22_OversizedLevelRuns == [](C22_State) /\ [][C22_Step]_vars

\* the run is over with one request per level and a level of 2, whose
\* single request succeeded at the second engine
C22_Witness ==
    /\ pc = "done" /\ cfg.rpl = 1 /\ cfg.levels = <<1, 2>>
    /\ results[2][2].num_requests = 1
    /\ fails.by[2][2] = 0


(***************************************************************************)
(* A stream that ends without its terminator (SpecRunner)                  *)
(***************************************************************************)

\* a 200 response read to its end without an exception and without a line
\* that is 'data: [DONE]' once stripped
Truncated(r) ==
    /\ Completed(r)
    /\ \A k \in DOMAIN r.hist : ~IsTerminatorStripped(r.hist[k])

\* a 200 response read without an exception up to its terminator
Terminated(r) ==
    /\ Completed(r)
    /\ r.hist # <<>>
    /\ IsTerminatorStripped(r.hist[Len(r.hist)])

C23_State ==
    \A i \in DOMAIN reqs :
        /\ Truncated(reqs[i]) =>
              /\ reqs[i].result.success
              /\ reqs[i].result.error = NoError
              /\ reqs[i].result.tokens_generated = PayloadLinesSeen(reqs[i])
        /\ Terminated(reqs[i]) => reqs[i].result.success

C23_Step ==
    \A i \in DOMAIN reqs :
        (reqs[i].st = "streaming" /\ i \in DOMAIN reqs' /\ Truncated(reqs'[i])) =>
            /\ reqs'[i].hist = reqs[i].hist
            /\ reqs'[i].result.latency = now' - reqs[i].start_time
            /\ reqs'[i].result = AfterLine(reqs[i], DoneLine, now').result

\* C23: a 200 response whose stream reaches end of input without a
\* terminator line is recorded as a success without an error text, with
\* tokens_generated equal to the payload lines seen and latency taken at
\* the end of input; a terminated stream is a success too, and the record
\* of the truncated one is the record the same lines would give had the
\* terminator arrived at that instant.
C23_TruncatedStreamSucceeds == [](C23_State) /\ [][C23_Step]_vars

\* a stream of two payload lines ended without a terminator
C23_Witness ==
    \E i \in DOMAIN reqs :
        /\ Truncated(reqs[i])
        /\ reqs[i].hist = <<PayloadLine, PayloadLine>>
        /\ reqs[i].result.tokens_generated = 2
        /\ reqs[i].result.success

====
